---- MODULE Spec2Model ----
(***************************************************************************)
(* WGUPS routing program (src/main.py): the chained hash table, the gate   *)
(* and status logic of a package, the distance provider, deliver_run and   *)
(* the three waves of run(), and the status queries of the menu.           *)
(*                                                                         *)
(* Units.  A time is a whole number of ticks of 20 seconds since midnight  *)
(* and a distance a whole number of tenths of a mile, the resolution of    *)
(* the distance file.  At 18 mph a tenth of a mile takes 20 seconds, so    *)
(* timedelta(hours = d / TRUCK_SPEED) is TravelTime(d) ticks, exactly.     *)
(* An optional value (None or a value) is the sequence <<>> or <<v>>.      *)
(***************************************************************************)
EXTENDS Integers, Sequences, FiniteSets, TLC

VARIABLES
    table,          \* HashTableWChains.table: sequence of buckets of <<key, item>>
    size,           \* HashTableWChains.size
    inserted,       \* history: the keys inserted so far, with their latest item
    DistanceCSV,    \* the distance rows, each a sequence of cells
    pkgs,           \* the Package records held by packageHash, by id
    manifest,       \* history: the id lists the trucks were constructed with
    trucks,         \* the three Truck objects, by name
    onboard,        \* deliver_run's local list of the packages still to deliver
    wave,           \* the truck whose deliver_run call is current
    pc,             \* position in run(): "load", "loop", "cli"
    fallback_count, \* _fallback_count
    waited,         \* history: ticks the current truck's clock was advanced at gates
    shown           \* the last package detail the menu printed

htVars == <<table, size, inserted>>
runVars == <<DistanceCSV, pkgs, manifest, trucks, onboard, wave, pc,
             fallback_count, waited, shown>>
vars == <<table, size, inserted, DistanceCSV, pkgs, manifest, trucks,
          onboard, wave, pc, fallback_count, waited, shown>>

None == <<>>
Some(v) == <<v>>
Val(o) == o[1]

\* timedelta(hours = h, minutes = m), in ticks
Hm(h, m) == (h * 60 + m) * 3

----------------------------------------------------------------------------
(* Constants of the program *)

DELAYED_TIME == Hm(9, 5)
ADDR_FIX_TIME == Hm(10, 20)
TRUCK_SPEED == 18
TRUCK_CAP == 16
FALLBACK_DIST == 75
HUB == <<"4001", "South", "700", "East">>
CORR_STREET == <<"410", "s", "state", "st">>
CORR_ZIP == "84111"

\* a travel time cut down to whole minutes
TravelTime_WholeMinutes(d) == 3 * (((d * 180) \div (TRUCK_SPEED * 10)) \div 3)

\* ticks needed for d tenths of a mile: d / 10 miles / TRUCK_SPEED hours
TravelTime(d) == (d * 180) \div (TRUCK_SPEED * 10)

----------------------------------------------------------------------------
(* Bounds of the model *)

MaxKey == 4         \* hash table keys are -1 .. MaxKey
MaxInitCap == 2     \* initialcapacity is 1 .. MaxInitCap
MaxLoad == 2        \* ids in one truck's manifest of the three-package runs
MaxManifest == 18   \* ids handed to the trucks in the capacity runs

----------------------------------------------------------------------------
(* HashTableWChains.  A table is [table, size]; a bucket is a sequence of *)
(* <<key, item>>; bucket b of the code is table[b + 1].                   *)

Keys == -1 .. MaxKey
Items == {"x", "y"}
NotFound == "None"

\* hash() of a Python int of this size: the int itself, except hash(-1) = -2
Hash(key) == IF key = -1 THEN -2 ELSE key

_bucket(tbl, key) == Hash(key) % Len(tbl)

EmptyTable(n) == [i \in 1 .. n |-> <<>>]

HashTableWChains(initialcapacity) ==
    [table |-> EmptyTable(initialcapacity), size |-> 0]

\* the indexes of arr whose key is key
Hits(arr, key) == {i \in 1 .. Len(arr) : arr[i][1] = key}

Min(S) == CHOOSE x \in S : \A y \in S : x <= y

RECURSIVE Flatten(_)
Flatten(tbl) ==
    IF tbl = <<>> THEN <<>> ELSE Head(tbl) \o Flatten(Tail(tbl))

\* a resize only when the table is full
NeedsResize_Full(ht) == ht.size * 4 > Len(ht.table) * 4

NeedsResize(ht) == ht.size * 4 > Len(ht.table) * 3

RECURSIVE insert(_, _, _)
RECURSIVE insertAll(_, _)

\* for bucket in old: for k, v in bucket: self.insert(k, v)
insertAll(ht, kvs) ==
    IF kvs = <<>> THEN ht
    ELSE insertAll(insert(ht, Head(kvs)[1], Head(kvs)[2]), Tail(kvs))

_resize(ht) ==
    insertAll([table |-> EmptyTable(Len(ht.table) * 2), size |-> 0],
              Flatten(ht.table))

\* an insert that appends without looking for the key
insert_NoReplace(ht, key, item) ==
    LET b == _bucket(ht.table, key) + 1
        added == [table |-> [ht.table EXCEPT ![b] = Append(ht.table[b], <<key, item>>)],
                  size |-> ht.size + 1]
    IN  IF NeedsResize(added) THEN _resize(added) ELSE added

insert(ht, key, item) ==
    LET b == _bucket(ht.table, key) + 1
        arr == ht.table[b]
    IN  IF Hits(arr, key) # {}
        THEN [ht EXCEPT !.table[b][Min(Hits(arr, key))] = <<key, item>>]
        ELSE LET added == [table |-> [ht.table EXCEPT ![b] = Append(arr, <<key, item>>)],
                           size |-> ht.size + 1]
             IN  IF NeedsResize(added) THEN _resize(added) ELSE added

search(ht, key) ==
    LET arr == ht.table[_bucket(ht.table, key) + 1]
    IN  IF Hits(arr, key) = {} THEN NotFound ELSE arr[Min(Hits(arr, key))][2]

HT == [table |-> table, size |-> size]

\* one call packageHash.insert(key, item)
Insert(key, item) ==
    /\ table' = insert(HT, key, item).table
    /\ size' = insert(HT, key, item).size
    /\ inserted' = [k \in DOMAIN inserted \cup {key} |->
                        IF k = key THEN item ELSE inserted[k]]
    /\ UNCHANGED runVars

----------------------------------------------------------------------------
(* Streets and the address table.  A street is its sequence of words; the *)
(* whitespace that _norm collapses is the boundary between two words.     *)

UpperWords ==
    [W |-> "w", Oakland |-> "oakland", Ave |-> "ave", S |-> "s", E |-> "e",
     South |-> "south", East |-> "east"]

\* str.lower() of one word
Lower(w) == IF w \in DOMAIN UpperWords THEN UpperWords[w] ELSE w

_norm(s) == [i \in 1 .. Len(s) |-> Lower(s[i])]

\* a "#<digits>" suite word
IsSuite(w) == w \in {"#104", "#2"}

RECURSIVE _strip_suite(_)
_strip_suite(s) ==
    IF s = <<>> THEN <<>>
    ELSE IF IsSuite(Head(s)) THEN _strip_suite(Tail(s))
    ELSE <<Head(s)>> \o _strip_suite(Tail(s))

\* Python's "a in b" on the normalized strings
Within(a, b) ==
    \E i \in 0 .. Len(b) - Len(a) : \A j \in 1 .. Len(a) : b[i + j] = a[j]

\* addressCSV rows [index, name, street]; a row of fewer than 3 cells is skipped
AddressCSV ==
    << <<"Locations">>,
       <<0, "Hub", <<"4001", "South", "700", "East">> >>,
       <<1, "Oakland", <<"195", "w", "oakland", "ave", "south">> >>,
       <<2, "Columbus", <<"2530", "s", "500", "e">> >>,
       <<3, "State", <<"410", "s", "state", "st">> >> >>

STREET_A == <<"195", "W", "Oakland", "Ave">>
STREET_B == <<"2530", "S", "500", "E", "#104">>
STREET_X == <<"99", "nowhere", "rd">>

AddrRows == {i \in 1 .. Len(AddressCSV) : Len(AddressCSV[i]) >= 3}

\* the first row matching exactly, else the first row matching as a substring
_address_index_for(street) ==
    LET tgt == _norm(street)
        tgt2 == _norm(_strip_suite(street))
        exact == {i \in AddrRows :
                    LET r == _norm(AddressCSV[i][3]) IN tgt = r \/ tgt2 = r}
        part == {i \in AddrRows :
                    LET r == _norm(AddressCSV[i][3])
                    IN  Within(tgt, r) \/ Within(tgt2, r) \/ Within(r, tgt) \/ Within(r, tgt2)}
    IN  IF exact # {} THEN Some(AddressCSV[Min(exact)][1])
        ELSE IF part # {} THEN Some(AddressCSV[Min(part)][1])
        ELSE None

Streets == {HUB, STREET_A, STREET_B, STREET_X, CORR_STREET}

\* _address_index_for, tabulated over the streets of the model
AddressIndex == [street \in Streets |-> _address_index_for(street)]

address_idx(street) ==
    LET idx == AddressIndex[street]
    IN  IF idx = None THEN 0 ELSE Val(idx)

----------------------------------------------------------------------------
(* The distance table.  A cell is <<d>>, d tenths of a mile, or <<>> for *)
(* an empty or non-numeric cell.  Row i of the code is DistanceCSV[i+1]. *)

_is_float(cell) == Len(cell) = 1

Cell(row, j) == IF j < Len(row) THEN row[j + 1] ELSE <<>>

\* [d |-> the distance returned, fb |-> 1 when _fallback_count was incremented]
dist_between(csv, idx1, idx2) ==
    IF idx1 = None \/ idx2 = None THEN [d |-> FALLBACK_DIST, fb |-> 1]
    ELSE LET i1 == Val(idx1)
             i2 == Val(idx2)
             n == Len(csv)
         IN  IF i1 >= n \/ i2 >= n THEN [d |-> FALLBACK_DIST, fb |-> 1]
             ELSE LET val == Cell(csv[i1 + 1], i2)
                      val2 == Cell(csv[i2 + 1], i1)
                  IN  IF ~_is_float(val)
                      THEN IF _is_float(val2) THEN [d |-> Val(val2), fb |-> 0]
                           ELSE [d |-> FALLBACK_DIST, fb |-> 1]
                      ELSE [d |-> Val(val), fb |-> 0]

\* a full symmetric table with equal legs
TableNear ==
    << << <<0>>,  <<30>>, <<30>>, <<60>> >>,
       << <<30>>, <<0>>,  <<40>>, <<30>> >>,
       << <<30>>, <<40>>, <<0>>,  <<50>> >>,
       << <<60>>, <<30>>, <<50>>, <<0>> >> >>

\* a lower-triangular table with long legs: the upper cells are missing
TableFar ==
    << << <<0>> >>,
       << <<160>>, <<0>> >>,
       << <<150>>, <<100>>, <<0>> >>,
       << <<240>>, <<90>>, <<120>>, <<0>> >> >>

\* a table with no row for index 3 and no number for the pair (1, 2)
TableGap ==
    << << <<0>>,  <<30>>, <<45>> >>,
       << <<30>>, <<0>>,  <<>> >>,
       << <<45>>, <<>>,   <<0>> >> >>

DistTables == {TableNear, TableFar, TableGap}

\* every pair of indexes of the address table has a number in csv
Resolvable(csv) ==
    \A i, j \in {AddressCSV[r][1] : r \in AddrRows} :
        dist_between(csv, Some(i), Some(j)).fb = 0

----------------------------------------------------------------------------
(* Deadlines, packages and trucks *)

EOD == <<"EOD">>
AM_0900 == <<9, 0, "AM">>
AM_1030 == <<10, 30, "AM">>
PM_1200 == <<12, 0, "PM">>

\* a deadline text is "EOD" or "<hh>:<mm> <AM|PM>", here <<hh, mm, ampm>>;
\* anything that does not split into the three parts is no deadline
parse_deadline(s) ==
    IF Len(s) # 3 THEN None
    ELSE LET h0 == s[1]
             h == IF s[3] = "PM" /\ h0 # 12 THEN h0 + 12
                  ELSE IF s[3] = "AM" /\ h0 = 12 THEN 0
                  ELSE h0
         IN  Some(Hm(h, s[2]))

NOTE_NONE == ""
NOTE_DELAYED == "Delayed on flight---will not arrive to depot until 9:05 am"
NOTE_TRUCK2 == "Can only be on truck 2"

\* "delayed on flight" in notes.lower()
HasDelayedText(notes) == notes = NOTE_DELAYED

AT_HUB == "AT HUB"
AWAITING == "AT HUB (awaiting 10:20 address correction)"
DELAYED == "DELAYED - will not arrive at the depot until 09:05 AM"
DELIVERED == "DELIVERED"
EnRoute(truck) == <<"EN ROUTE on", IF truck # "None" THEN truck ELSE "Truck">>

\* Package.__init__, and loadPackageData's correction of package 9
Package(ID, street, zipc, deadline, notes) ==
    [ID |-> ID, street |-> street, zip |-> zipc, deadline |-> deadline,
     notes |-> notes, status |-> <<AT_HUB>>, departureTime |-> None,
     deliveryTime |-> None, truck |-> "None",
     _orig_street |-> street, _orig_zip |-> zipc,
     _corr_street |-> IF ID = 9 THEN CORR_STREET ELSE street,
     _corr_zip |-> IF ID = 9 THEN CORR_ZIP ELSE zipc]

\* Truck.__init__
Truck(name, currentLocation, departTime, packages) ==
    [name |-> name, speed |-> TRUCK_SPEED, currentLocation |-> currentLocation,
     departTime |-> departTime, time |-> departTime, miles |-> 0,
     packages |-> packages]

\* the id list taken whole
Capped_Whole(ids) == ids

\* packages[:TRUCK_CAP]
Capped(ids) == SubSeq(ids, 1, IF Len(ids) < TRUCK_CAP THEN Len(ids) ELSE TRUCK_CAP)

----------------------------------------------------------------------------
(* Gates and status *)

is_delayed(pkg) == HasDelayedText(pkg.notes)

\* eligibility without the delayed gate
eligible_now_NoDelayGate(pkg, now_time) ==
    IF pkg.ID = 9 /\ now_time < ADDR_FIX_TIME THEN FALSE ELSE TRUE

\* eligibility without the address-correction gate
eligible_now_NoFixGate(pkg, now_time) ==
    IF is_delayed(pkg) /\ now_time < DELAYED_TIME THEN FALSE ELSE TRUE

\* eligibility whose gates are still closed at the threshold itself
eligible_now_ClosedAtGate(pkg, now_time) ==
    IF pkg.ID = 9 /\ now_time <= ADDR_FIX_TIME THEN FALSE
    ELSE IF is_delayed(pkg) /\ now_time <= DELAYED_TIME THEN FALSE
    ELSE TRUE

eligible_now(pkg, now_time) ==
    IF pkg.ID = 9 /\ now_time < ADDR_FIX_TIME THEN FALSE
    ELSE IF is_delayed(pkg) /\ now_time < DELAYED_TIME THEN FALSE
    ELSE TRUE

\* a routing side that never corrects the address
apply_addr_fix_Never(pkg, now_time) == pkg

apply_addr_fix_if_due(pkg, now_time) ==
    IF /\ pkg.ID = 9
       /\ now_time >= ADDR_FIX_TIME
       /\ (pkg.street # pkg._corr_street \/ pkg.zip # pkg._corr_zip)
    THEN [pkg EXCEPT !.street = pkg._corr_street, !.zip = pkg._corr_zip]
    ELSE pkg

\* a statusUpdate that looks at the departure before the gates
statusUpdate_DepartFirst(pkg, qtime) ==
    IF pkg.departureTime = None \/ qtime < Val(pkg.departureTime) THEN <<AT_HUB>>
    ELSE IF pkg.ID = 9 /\ qtime < ADDR_FIX_TIME THEN <<AWAITING>>
    ELSE IF HasDelayedText(pkg.notes) /\ qtime < DELAYED_TIME THEN <<DELAYED>>
    ELSE IF pkg.deliveryTime = None \/ qtime < Val(pkg.deliveryTime)
         THEN EnRoute(pkg.truck)
    ELSE <<DELIVERED>>

\* a statusUpdate whose delayed gate compares the wrong way round
statusUpdate_FlippedGate(pkg, qtime) ==
    IF pkg.ID = 9 /\ qtime < ADDR_FIX_TIME THEN <<AWAITING>>
    ELSE IF HasDelayedText(pkg.notes) /\ qtime > DELAYED_TIME THEN <<DELAYED>>
    ELSE IF pkg.departureTime = None \/ qtime < Val(pkg.departureTime) THEN <<AT_HUB>>
    ELSE IF pkg.deliveryTime = None \/ qtime < Val(pkg.deliveryTime)
         THEN EnRoute(pkg.truck)
    ELSE <<DELIVERED>>

\* a statusUpdate that keeps a stored delayed status
statusUpdate_StaysDelayed(pkg, qtime) ==
    IF pkg.status = <<DELAYED>> THEN <<DELAYED>>
    ELSE IF pkg.ID = 9 /\ qtime < ADDR_FIX_TIME THEN <<AWAITING>>
    ELSE IF HasDelayedText(pkg.notes) /\ qtime < DELAYED_TIME THEN <<DELAYED>>
    ELSE IF pkg.departureTime = None \/ qtime < Val(pkg.departureTime) THEN <<AT_HUB>>
    ELSE IF pkg.deliveryTime = None \/ qtime < Val(pkg.deliveryTime)
         THEN EnRoute(pkg.truck)
    ELSE <<DELIVERED>>

\* the value statusUpdate(qtime) leaves in pkg.status
statusUpdate(pkg, qtime) ==
    IF pkg.ID = 9 /\ qtime < ADDR_FIX_TIME THEN <<AWAITING>>
    ELSE IF HasDelayedText(pkg.notes) /\ qtime < DELAYED_TIME THEN <<DELAYED>>
    ELSE IF pkg.departureTime = None \/ qtime < Val(pkg.departureTime) THEN <<AT_HUB>>
    ELSE IF pkg.deliveryTime = None \/ qtime < Val(pkg.deliveryTime)
         THEN EnRoute(pkg.truck)
    ELSE <<DELIVERED>>

\* (street, zip) to display at qtime; city and state never change
display_address(pkg, qtime) ==
    IF pkg.ID = 9
    THEN IF qtime < ADDR_FIX_TIME THEN <<pkg._orig_street, pkg._orig_zip>>
         ELSE <<pkg._corr_street, pkg._corr_zip>>
    ELSE <<pkg.street, pkg.zip>>

----------------------------------------------------------------------------
(* deliver_run(truck) *)

T1 == "Truck 1"
T2 == "Truck 2"
T3 == "Truck 3"
TruckNames == {T1, T2, T3}

IdsOf(seq) == {seq[i] : i \in 1 .. Len(seq)}

InStore(pid) == pid \in DOMAIN pkgs

\* a departure stamp that takes the gate time whatever the wave start
GatedDeparture_GateOnly(pkg, departTime) ==
    IF pkg.ID = 9 THEN ADDR_FIX_TIME
    ELSE IF is_delayed(pkg) THEN DELAYED_TIME
    ELSE departTime

\* lines 306-314: the departure time a package gets when it is first loaded
GatedDeparture(pkg, departTime) ==
    LET g1 == IF is_delayed(pkg) /\ departTime < DELAYED_TIME
              THEN DELAYED_TIME ELSE departTime
    IN  IF pkg.ID = 9 /\ g1 < ADDR_FIX_TIME THEN ADDR_FIX_TIME ELSE g1

\* lines 301-316: attach the truck, stamp the departure, empty truck.packages
Load ==
    /\ pc = "load"
    /\ LET truck == trucks[wave]
           present == SelectSeq(truck.packages, InStore)
       IN  /\ pkgs' = [pid \in DOMAIN pkgs |->
                         IF pid \in IdsOf(present)
                         THEN [pkgs[pid] EXCEPT
                                 !.truck = truck.name,
                                 !.departureTime =
                                     IF pkgs[pid].departureTime = None
                                     THEN Some(GatedDeparture(pkgs[pid], truck.departTime))
                                     ELSE pkgs[pid].departureTime]
                         ELSE pkgs[pid]]
           /\ onboard' = present
           /\ trucks' = [trucks EXCEPT ![wave].packages = <<>>]
    /\ pc' = "loop"
    /\ waited' = 0
    /\ UNCHANGED <<htVars, DistanceCSV, manifest, wave, fallback_count, shown>>

\* lines 321-322: the records after the routing-side correction at the current clock
Fixed(now_time) ==
    [pid \in DOMAIN pkgs |->
        IF pid \in IdsOf(onboard) THEN apply_addr_fix_if_due(pkgs[pid], now_time)
        ELSE pkgs[pid]]

\* lines 320-324: the onboard ids eligible at the current clock, in onboard order
Elig(now_time) ==
    LET ok(pid) == eligible_now(apply_addr_fix_if_due(pkgs[pid], now_time), now_time)
    IN  SelectSeq(onboard, ok)

\* the future gates without the address correction
NextTimes_OnlyDelay(now_time) ==
    IF now_time < DELAYED_TIME /\ (\E pid \in IdsOf(onboard) : is_delayed(pkgs[pid]))
    THEN {DELAYED_TIME} ELSE {}

\* the future gates without the delayed-flight threshold
NextTimes_OnlyFix(now_time) ==
    IF now_time < ADDR_FIX_TIME /\ (\E pid \in IdsOf(onboard) : pkgs[pid].ID = 9)
    THEN {ADDR_FIX_TIME} ELSE {}

\* the future gates, of which only the latest is kept
NextTimes_Latest(now_time) ==
    IF now_time < ADDR_FIX_TIME /\ (\E pid \in IdsOf(onboard) : pkgs[pid].ID = 9)
    THEN {ADDR_FIX_TIME}
    ELSE IF now_time < DELAYED_TIME /\ (\E pid \in IdsOf(onboard) : is_delayed(pkgs[pid]))
    THEN {DELAYED_TIME} ELSE {}

\* lines 326-330
NextTimes(now_time) ==
    (IF now_time < DELAYED_TIME /\ (\E pid \in IdsOf(onboard) : is_delayed(pkgs[pid]))
     THEN {DELAYED_TIME} ELSE {})
    \cup
    (IF now_time < ADDR_FIX_TIME /\ (\E pid \in IdsOf(onboard) : pkgs[pid].ID = 9)
     THEN {ADDR_FIX_TIME} ELSE {})

\* lines 325-334: nothing is eligible: advance the clock to the next gate, or break
Wait ==
    /\ pc = "loop"
    /\ onboard # <<>>
    /\ LET now == trucks[wave].time
       IN  /\ Elig(now) = <<>>
           /\ pkgs' = Fixed(now)
           /\ IF NextTimes(now) = {}
              THEN /\ pc' = "ret"
                   /\ UNCHANGED <<trucks, waited>>
              ELSE LET t == Min({x \in NextTimes(now) : x > now})
                   IN  /\ trucks' = [trucks EXCEPT ![wave].time = t]
                       /\ waited' = waited + (t - now)
                       /\ pc' = "loop"
    /\ UNCHANGED <<htVars, DistanceCSV, manifest, onboard, wave, fallback_count, shown>>

\* lines 337-342: (p, d, arrival, deadline) of one eligible package, with the
\* fallback it counted
Info(pkg, cur_idx, now_time, csv) ==
    LET r == dist_between(csv, cur_idx, Some(address_idx(pkg.street)))
    IN  [id |-> pkg.ID, d |-> r.d, arr |-> now_time + TravelTime(r.d),
         dl |-> parse_deadline(pkg.deadline), fb |-> r.fb]

IsEod(c) == c.dl = None
IsOnTime(c) == c.dl # None /\ c.arr <= Val(c.dl)
IsLate(c) == c.dl # None /\ c.arr > Val(c.dl)

\* the on-time score without the early bonus
OnTimeScore_NoBonus(c) == [main |-> 10 * c.arr + 3 * c.d, id |-> c.id]

\* line 365, times 30: minutes of arrival + miles - bonus; the term p.ID * 1e-6
\* is smaller than any step of the rest (1/30) and only orders equal scores
OnTimeScore(c) ==
    [main |-> 10 * c.arr + 3 * c.d - (IF c.arr <= Val(c.dl) - Hm(0, 10) THEN 6 ELSE 0),
     id |-> c.id]

\* the distance alone, without the id term
EodScore_NoId(c) == [main |-> c.d, id |-> 0]

\* line 387: d + p.ID * 1e-6
EodScore(c) == [main |-> c.d, id |-> c.id]

ScoreLess(a, b) == a.main < b.main \/ (a.main = b.main /\ a.id < b.id)

\* line 378
LateBetter(c1, c0) ==
    LET late0 == c0.arr - Val(c0.dl)
        late1 == c1.arr - Val(c1.dl)
    IN  \/ late1 < late0
        \/ (late1 = late0 /\ c1.d < c0.d)
        \/ (late1 = late0 /\ c1.d = c0.d /\ c1.id < c0.id)

RECURSIVE BestOnTime(_, _)
BestOnTime(best, rest) ==
    IF rest = <<>> THEN best
    ELSE BestOnTime(IF ScoreLess(OnTimeScore(Head(rest)), OnTimeScore(best))
                    THEN Head(rest) ELSE best, Tail(rest))

RECURSIVE BestLate(_, _)
BestLate(best, rest) ==
    IF rest = <<>> THEN best
    ELSE BestLate(IF LateBetter(Head(rest), best) THEN Head(rest) ELSE best, Tail(rest))

RECURSIVE BestEod(_, _)
BestEod(best, rest) ==
    IF rest = <<>> THEN best
    ELSE BestEod(IF ScoreLess(EodScore(Head(rest)), EodScore(best))
                 THEN Head(rest) ELSE best, Tail(rest))

\* a selection that serves the missed deadlines before the ones it can meet
Select_LateFirst(info) ==
    LET ontime_hd == SelectSeq(info, IsOnTime)
        late_hd == SelectSeq(info, IsLate)
        eod == SelectSeq(info, IsEod)
    IN  IF late_hd # <<>> THEN BestLate(Head(late_hd), Tail(late_hd))
        ELSE IF ontime_hd # <<>> THEN BestOnTime(Head(ontime_hd), Tail(ontime_hd))
        ELSE BestEod(Head(eod), Tail(eod))

\* lines 344-391: partition the candidates and select one
Select(info) ==
    LET ontime_hd == SelectSeq(info, IsOnTime)
        late_hd == SelectSeq(info, IsLate)
        eod == SelectSeq(info, IsEod)
    IN  IF ontime_hd # <<>> THEN BestOnTime(Head(ontime_hd), Tail(ontime_hd))
        ELSE IF late_hd # <<>> THEN BestLate(Head(late_hd), Tail(late_hd))
        ELSE BestEod(Head(eod), Tail(eod))

\* the candidates of the current iteration
Candidates ==
    LET now == trucks[wave].time
        elig == Elig(now)
        cur_idx == Some(address_idx(trucks[wave].currentLocation))
    IN  [i \in 1 .. Len(elig) |->
            Info(apply_addr_fix_if_due(pkgs[elig[i]], now), cur_idx, now, DistanceCSV)]

RECURSIVE SumFb(_)
SumFb(info) == IF info = <<>> THEN 0 ELSE Head(info).fb + SumFb(Tail(info))

\* onboard.remove(sel_p): the first occurrence
RECURSIVE Remove(_, _)
Remove(seq, x) ==
    IF seq = <<>> THEN <<>>
    ELSE IF Head(seq) = x THEN Tail(seq)
    ELSE <<Head(seq)>> \o Remove(Tail(seq), x)

\* lines 336-400: score the eligible packages, select one and travel to it
Deliver ==
    /\ pc = "loop"
    /\ onboard # <<>>
    /\ Elig(trucks[wave].time) # <<>>
    /\ LET now == trucks[wave].time
           info == Candidates
           sel == Select(info)
           arrive == now + TravelTime(sel.d)
           sel_p == apply_addr_fix_if_due(pkgs[sel.id], now)
       IN  /\ trucks' = [trucks EXCEPT
                            ![wave].miles = @ + sel.d,
                            ![wave].time = arrive,
                            ![wave].currentLocation = sel_p.street,
                            ![wave].packages = Append(@, sel.id)]
           /\ pkgs' = [Fixed(now) EXCEPT
                          ![sel.id].deliveryTime = Some(arrive),
                          ![sel.id].status = <<DELIVERED>>]
           /\ onboard' = Remove(onboard, sel.id)
           /\ fallback_count' = fallback_count + SumFb(info)
    /\ UNCHANGED <<htVars, DistanceCSV, manifest, wave, pc, waited, shown>>

----------------------------------------------------------------------------
(* run(): Truck 1, then Truck 3, then Truck 2 on the first free driver *)

\* Truck 2 leaving when the later of the two other trucks has finished
T2Departure_Later ==
    IF trucks[T1].time >= trucks[T3].time THEN trucks[T1].time ELSE trucks[T3].time

\* Truck 2 leaving at the first dispatch of the day
T2Departure_AtDispatch == Hm(8, 0)

\* lines 457-461
T2Departure ==
    LET t2_dep == IF trucks[T1].time <= trucks[T3].time
                  THEN trucks[T1].time ELSE trucks[T3].time
    IN  IF t2_dep < Hm(8, 0) THEN Hm(8, 0) ELSE t2_dep

\* deliver_run returns (the loop ended or broke) and run() goes on
EndWave ==
    /\ \/ pc = "loop" /\ onboard = <<>>
       \/ pc = "ret"
    /\ IF wave = T1
       THEN /\ wave' = T3
            /\ pc' = "load"
            /\ UNCHANGED trucks
       ELSE IF wave = T3
       THEN /\ wave' = T2
            /\ pc' = "load"
            /\ trucks' = [trucks EXCEPT ![T2].departTime = T2Departure,
                                         ![T2].time = T2Departure]
       ELSE /\ pc' = "cli"
            /\ UNCHANGED <<wave, trucks>>
    /\ UNCHANGED <<htVars, DistanceCSV, pkgs, manifest, onboard, fallback_count,
                   waited, shown>>

----------------------------------------------------------------------------
(* The menu: package detail at a time (choice 1), all packages (choice 2) *)

\* hms_any of a timedelta: hours and minutes, the seconds cut off
hms_any(x) ==
    IF x = None THEN <<>>
    ELSE LET total == Val(x) * 20
         IN  <<(total \div 3600) % 24, (total % 3600) \div 60>>

\* lines 538-548 and 566-571: the detail printed for a package at time q
Detail(pkg, q) ==
    [ID |-> pkg.ID,
     at |-> q,
     address |-> display_address(pkg, q),
     deadline |-> pkg.deadline,
     truck |-> IF pkg.truck # "None" THEN pkg.truck ELSE "-",
     status |-> statusUpdate(pkg, q),
     delivered_at |-> IF pkg.deliveryTime # None /\ Val(pkg.deliveryTime) <= q
                      THEN hms_any(pkg.deliveryTime) ELSE <<>>]

NothingShown == [kind |-> "none", rows |-> <<>>]

\* choice 1: one package by id
QueryOne(pid, q) ==
    /\ pc = "cli"
    /\ IF InStore(pid)
       THEN /\ pkgs' = [pkgs EXCEPT ![pid].status = statusUpdate(pkgs[pid], q)]
            /\ shown' = [kind |-> "detail", rows |-> [x \in {pid} |-> Detail(pkgs[pid], q)]]
       ELSE /\ shown' = [kind |-> "Unknown package ID.", rows |-> <<>>]
            /\ UNCHANGED pkgs
    /\ UNCHANGED <<htVars, DistanceCSV, manifest, trucks, onboard, wave, pc,
                   fallback_count, waited>>

\* choice 2: every package of the table
QueryAll(q) ==
    /\ pc = "cli"
    /\ pkgs' = [pid \in DOMAIN pkgs |->
                    [pkgs[pid] EXCEPT !.status = statusUpdate(pkgs[pid], q)]]
    /\ shown' = [kind |-> "list", rows |-> [pid \in DOMAIN pkgs |-> Detail(pkgs[pid], q)]]
    /\ UNCHANGED <<htVars, DistanceCSV, manifest, trucks, onboard, wave, pc,
                   fallback_count, waited>>

----------------------------------------------------------------------------
(* Inputs: the package file, the distance file and the manifests *)

Ids == {8, 9, 10}

\* the ids asked at the menu: one of them is in no file
QueryIds == Ids \cup {11}

Row(street, zipc, deadline, notes) ==
    [street |-> street, zip |-> zipc, deadline |-> deadline, notes |-> notes]

EodA == Row(STREET_A, "84115", EOD, NOTE_NONE)
NineA == Row(STREET_A, "84115", AM_0900, NOTE_NONE)
NineB == Row(STREET_B, "84106", AM_0900, NOTE_TRUCK2)
TenThirtyA == Row(STREET_A, "84115", AM_1030, NOTE_NONE)
NoonB == Row(STREET_B, "84106", PM_1200, NOTE_NONE)
DelayedTenThirtyB == Row(STREET_B, "84106", AM_1030, NOTE_DELAYED)
DelayedEodA == Row(STREET_A, "84115", EOD, NOTE_DELAYED)
EodX == Row(STREET_X, "84199", EOD, NOTE_NONE)

\* the rows the package file may hold for each id
RowsOf(pid) ==
    IF pid = 8 THEN {EodA, NineA, DelayedTenThirtyB, EodX}
    ELSE IF pid = 9 THEN {EodA, NineA, DelayedEodA}
    ELSE {EodA, NineB, TenThirtyA, NoonB, DelayedTenThirtyB}

PackageFiles == {rows \in [Ids -> UNION {RowsOf(pid) : pid \in Ids}] :
                    \A pid \in Ids : rows[pid] \in RowsOf(pid)}

RECURSIVE Ascending(_)
Ascending(S) ==
    IF S = {} THEN <<>> ELSE <<Min(S)>> \o Ascending(S \ {Min(S)})

Reverse(seq) == [i \in 1 .. Len(seq) |-> seq[Len(seq) + 1 - i]]

\* the id list of a truck: its ids in ascending or in descending order
IdList(assign, name, rev) ==
    LET asc == Ascending({pid \in Ids : assign[pid] = name})
    IN  IF rev THEN Reverse(asc) ELSE asc

\* lines 404-450: the files are loaded and the three trucks constructed
Setup(rows, csv, assign, rev) ==
    /\ \A name \in TruckNames : Len(IdList(assign, name, rev)) <= MaxLoad
    /\ pkgs = [pid \in Ids |->
                  Package(pid, rows[pid].street, rows[pid].zip,
                          rows[pid].deadline, rows[pid].notes)]
    /\ DistanceCSV = csv
    /\ manifest = [name \in TruckNames |-> Capped(IdList(assign, name, rev))]
    /\ trucks = [name \in TruckNames |->
                    Truck(name, HUB,
                          IF name = T1 THEN Hm(8, 0)
                          ELSE IF name = T3 THEN Hm(9, 5) ELSE Hm(11, 0),
                          Capped(IdList(assign, name, rev)))]
    /\ onboard = <<>>
    /\ wave = T1
    /\ pc = "load"
    /\ fallback_count = 0
    /\ waited = 0
    /\ shown = NothingShown

HtIdle ==
    /\ table = HashTableWChains(1).table
    /\ size = 0
    /\ inserted = <<>>

Init ==
    /\ HtIdle
    /\ \E rows \in PackageFiles, csv \in DistTables,
          assign \in [Ids -> TruckNames], rev \in BOOLEAN :
            Setup(rows, csv, assign, rev)

Next ==
    \/ Load
    \/ Wait
    \/ Deliver
    \/ EndWave

Spec == Init /\ [][Next]_vars

\* run() calls the waves one after another and each statement of deliver_run
\* runs to its end: a step that is enabled is eventually taken
InitLive ==
    /\ HtIdle
    /\ \E rows \in PackageFiles, csv \in {TableFar, TableGap},
          assign \in [Ids -> TruckNames] :
            /\ rows[8] \in {DelayedTenThirtyB, EodX}
            /\ rows[9] \in {NineA, DelayedEodA}
            /\ rows[10] \in {EodA, DelayedTenThirtyB}
            /\ Setup(rows, csv, assign, FALSE)

SpecLive == InitLive /\ [][Next]_vars /\ WF_vars(Next)

\* the menu after a run over a smaller set of files
QueryTimes == {Hm(8, 30), Hm(9, 0), Hm(9, 5), Hm(10, 0), Hm(10, 20), Hm(13, 0)}

InitCLI ==
    /\ HtIdle
    /\ \E rows \in PackageFiles, assign \in [Ids -> TruckNames] :
            /\ rows[8] \in {DelayedTenThirtyB, EodX}
            /\ rows[9] \in {EodA, NineA}
            /\ rows[10] \in {EodA, NoonB}
            /\ Setup(rows, TableFar, assign, FALSE)

NextCLI ==
    \/ Next
    \/ \E pid \in QueryIds, q \in QueryTimes : QueryOne(pid, q)
    \/ \E q \in QueryTimes : QueryAll(q)

SpecCLI == InitCLI /\ [][NextCLI]_vars

\* the waves with id lists up to and beyond the capacity of a truck: Truck 1
\* is given the ids 1 .. n, and Truck 2 or Truck 3 the ids above n
CapIds == 1 .. MaxManifest

InitCap ==
    /\ HtIdle
    /\ \E n \in 0 .. MaxManifest, other \in {T2, T3} :
        LET low == [i \in 1 .. n |-> i]
            high == [i \in 1 .. MaxManifest - n |-> n + i]
            ids(name) == IF name = T1 THEN low ELSE IF name = other THEN high ELSE <<>>
        IN  /\ pkgs = [pid \in CapIds |->
                          IF pid % 2 = 1
                          THEN Package(pid, STREET_A, "84115", EOD, NOTE_NONE)
                          ELSE Package(pid, STREET_B, "84106", EOD, NOTE_NONE)]
            /\ DistanceCSV = TableNear
            /\ manifest = [name \in TruckNames |-> Capped(ids(name))]
            /\ trucks = [name \in TruckNames |->
                            Truck(name, HUB,
                                  IF name = T1 THEN Hm(8, 0)
                                  ELSE IF name = T3 THEN Hm(9, 5) ELSE Hm(11, 0),
                                  Capped(ids(name)))]
    /\ onboard = <<>>
    /\ wave = T1
    /\ pc = "load"
    /\ fallback_count = 0
    /\ waited = 0
    /\ shown = NothingShown

SpecCap == InitCap /\ [][Next]_vars

\* the hash table alone, from any small initial capacity
InitHT ==
    /\ \E initialcapacity \in 1 .. MaxInitCap :
            /\ table = HashTableWChains(initialcapacity).table
            /\ size = HashTableWChains(initialcapacity).size
    /\ inserted = <<>>
    /\ Setup([pid \in Ids |-> EodA], TableNear,
             [pid \in Ids |-> IF pid = 8 THEN T1 ELSE IF pid = 9 THEN T2 ELSE T3], FALSE)

NextHT == \E key \in Keys, item \in Items : Insert(key, item)

SpecHT == InitHT /\ [][NextHT]_vars

----------------------------------------------------------------------------
(* Properties of the waves *)

Done == pc = "cli"

Count(seq, x) == Cardinality({i \in 1 .. Len(seq) : seq[i] = x})

Delivered(pid) == pkgs[pid].deliveryTime # None

\* C1: after the three waves every id of a truck's manifest is exactly once in
\* that truck's delivered order, and no id is in the delivered orders of two trucks
C1_DeliveredExactlyOnce ==
    Done =>
        /\ \A name \in TruckNames : \A pid \in IdsOf(manifest[name]) :
                Count(trucks[name].packages, pid) = 1
        /\ \A n1, n2 \in TruckNames :
                n1 # n2 => IdsOf(trucks[n1].packages) \cap IdsOf(trucks[n2].packages) = {}

\* a finished run in which one truck carried two packages and another truck one
C1_Witness ==
    /\ Done
    /\ \E n1, n2 \in TruckNames :
            /\ n1 # n2
            /\ Len(manifest[n1]) = 2 /\ Len(trucks[n1].packages) = 2
            /\ Len(manifest[n2]) = 1 /\ Len(trucks[n2].packages) = 1

\* the arrival of a trip from the depot straight to the package, leaving when
\* the wave has started and the package's gates are open
IsolatedArrival(pid) ==
    LET pkg == pkgs[pid]
        dest == IF pkg.ID = 9 THEN pkg._corr_street ELSE pkg.street
        d == dist_between(DistanceCSV, Some(address_idx(HUB)), Some(address_idx(dest))).d
    IN  GatedDeparture(pkg, trucks[pkg.truck].departTime) + TravelTime(d)

HasDeadline(pid) == parse_deadline(pkgs[pid].deadline) # None

Deadline(pid) == Val(parse_deadline(pkgs[pid].deadline))

\* C2: after the run every package with a hard deadline that is feasible in
\* isolation was delivered no later than that deadline
C2_FeasibleDeadlinesMet ==
    Done =>
        \A pid \in DOMAIN pkgs :
            (HasDeadline(pid) /\ pkgs[pid].truck # "None"
                /\ IsolatedArrival(pid) <= Deadline(pid))
            => (Delivered(pid) /\ Val(pkgs[pid].deliveryTime) <= Deadline(pid))

\* the step removes pid from the onboard list: pid is the selected package
Selected(pid) == pid \in IdsOf(onboard) /\ pid \notin IdsOf(onboard')

\* C3: a delayed package is never selected at a truck clock before 09:05, and
\* its departure and delivery times are never before 09:05
C3_DelayedNotBefore0905 ==
    /\ [](\A pid \in DOMAIN pkgs :
            is_delayed(pkgs[pid]) =>
                /\ pkgs[pid].departureTime # None => Val(pkgs[pid].departureTime) >= DELAYED_TIME
                /\ Delivered(pid) => Val(pkgs[pid].deliveryTime) >= DELAYED_TIME)
    /\ [][\A pid \in DOMAIN pkgs :
            (Selected(pid) /\ is_delayed(pkgs[pid])) => trucks[wave].time >= DELAYED_TIME]_vars

\* a delayed package delivered by a truck whose wave started before 09:05
C3_Witness ==
    \E pid \in DOMAIN pkgs :
        /\ is_delayed(pkgs[pid])
        /\ Delivered(pid)
        /\ trucks[pkgs[pid].truck].departTime < DELAYED_TIME

\* C4: package 9 is never delivered before 10:20
C4_Nine_NotBefore1020 ==
    \A pid \in DOMAIN pkgs :
        (pkgs[pid].ID = 9 /\ Delivered(pid)) => Val(pkgs[pid].deliveryTime) >= ADDR_FIX_TIME

\* package 9 with a 09:00 deadline, delivered by a truck that started before 10:20
\* and had nothing else left to deliver first
C4_Witness ==
    /\ 9 \in DOMAIN pkgs
    /\ Delivered(9)
    /\ HasDeadline(9) /\ Deadline(9) < ADDR_FIX_TIME
    /\ trucks[pkgs[9].truck].departTime < ADDR_FIX_TIME

\* C5: for every delivered package, delivery >= departure >= the wave start of
\* the truck that delivered it
C5_TimesOrdered ==
    \A pid \in DOMAIN pkgs :
        Delivered(pid) =>
            /\ pkgs[pid].departureTime # None
            /\ Val(pkgs[pid].deliveryTime) >= Val(pkgs[pid].departureTime)
            /\ Val(pkgs[pid].departureTime) >= trucks[pkgs[pid].truck].departTime

\* a delayed package delivered by Truck 2 after Truck 2 started later than 09:05
C5_Witness ==
    \E pid \in DOMAIN pkgs :
        /\ Delivered(pid)
        /\ is_delayed(pkgs[pid])
        /\ pkgs[pid].truck = T2
        /\ trucks[T2].departTime > DELAYED_TIME

----------------------------------------------------------------------------
(* Properties of the status query *)

DelayGated(pkg) == HasDelayedText(pkg.notes)

\* the status of the five rules, first match wins
FiveRuleStatus(pkg, qtime) ==
    CASE pkg.ID = 9 /\ qtime < ADDR_FIX_TIME -> <<AWAITING>>
      [] ~(pkg.ID = 9 /\ qtime < ADDR_FIX_TIME)
            /\ DelayGated(pkg) /\ qtime < DELAYED_TIME -> <<DELAYED>>
      [] OTHER ->
            IF pkg.departureTime = None THEN <<AT_HUB>>
            ELSE IF qtime < Val(pkg.departureTime) THEN <<AT_HUB>>
            ELSE IF pkg.deliveryTime = None THEN <<"EN ROUTE on", pkg.truck>>
            ELSE IF qtime < Val(pkg.deliveryTime) THEN <<"EN ROUTE on", pkg.truck>>
            ELSE <<DELIVERED>>

\* the rows of the last answer of the menu
ShownIds == DOMAIN shown.rows

\* C6: a status query at qtime leaves and prints the status of the five-rule
\* precedence; the gate rules win even after the package's truck has departed
C6_StatusIsFiveRule ==
    \A pid \in ShownIds :
        /\ shown.rows[pid].status = FiveRuleStatus(pkgs[pid], shown.rows[pid].at)
        /\ pkgs[pid].status = FiveRuleStatus(pkgs[pid], shown.rows[pid].at)
        /\ (DelayGated(pkgs[pid]) /\ shown.rows[pid].at < DELAYED_TIME
                /\ pkgs[pid].ID # 9)
            => pkgs[pid].status = <<DELAYED>>
        /\ (pkgs[pid].ID = 9 /\ shown.rows[pid].at < ADDR_FIX_TIME)
            => pkgs[pid].status = <<AWAITING>>

\* a delayed package asked at 08:30 or 09:00 after its truck left at 08:00
C6_Witness ==
    \E pid \in ShownIds :
        /\ DelayGated(pkgs[pid])
        /\ pkgs[pid].truck # "None"
        /\ trucks[pkgs[pid].truck].departTime <= shown.rows[pid].at
        /\ shown.rows[pid].at < DELAYED_TIME
        /\ pkgs[pid].status = <<DELAYED>>

\* the stage of a status: gated, at hub, en route, delivered
Stage(status) ==
    IF status \in {<<AWAITING>>, <<DELAYED>>} THEN 0
    ELSE IF status = <<AT_HUB>> THEN 1
    ELSE IF status = <<DELIVERED>> THEN 3
    ELSE 2

\* the query times that can tell two statuses of a package apart
TimesOf(pkg) ==
    QueryTimes
    \cup (IF pkg.departureTime = None THEN {}
          ELSE {Val(pkg.departureTime) - 1, Val(pkg.departureTime)})
    \cup (IF pkg.deliveryTime = None THEN {}
          ELSE {Val(pkg.deliveryTime) - 1, Val(pkg.deliveryTime)})

\* C7: with the timestamps of a completed run, the status never moves to an
\* earlier stage as the query time grows, and delivered stays delivered
C7_StatusMonotone ==
    Done =>
        \A pid \in DOMAIN pkgs : \A t1, t2 \in TimesOf(pkgs[pid]) :
            t1 <= t2 =>
                Stage(statusUpdate(pkgs[pid], t1)) <= Stage(statusUpdate(pkgs[pid], t2))

\* a package that is gated, then at the hub, then en route, then delivered
C7_Witness ==
    /\ Done
    /\ \E pid \in DOMAIN pkgs :
            \A stage \in 0 .. 3 :
                \E t \in TimesOf(pkgs[pid]) : Stage(statusUpdate(pkgs[pid], t)) = stage

----------------------------------------------------------------------------
(* Properties of the hash table *)

\* the places <<bucket, position>> of the table that hold the key
Places(key) ==
    {bi \in UNION {{<<b, i>> : i \in 1 .. Len(table[b])} : b \in 1 .. Len(table)} :
        table[bi[1]][bi[2]][1] = key}

\* C8: search returns the item of the latest insert of the key and not-found
\* for a key never inserted; size is the number of distinct keys inserted
C8_BehavesAsMap ==
    /\ \A key \in Keys :
            search(HT, key) = IF key \in DOMAIN inserted THEN inserted[key] ELSE NotFound
    /\ size = Cardinality(DOMAIN inserted)

\* a key inserted again with another item while it shares its bucket
C8_Witness ==
    \E b \in 1 .. Len(table) :
        /\ Len(table[b]) >= 2
        /\ \E i \in 1 .. Len(table[b]) : table[b][i][2] = "y"
        /\ \E i \in 1 .. Len(table[b]) : table[b][i][2] = "x"

\* C9: after every insert the load factor is at most 0.75, each key is stored
\* once and in bucket hash(key) mod bucket count; an insert that exceeds the
\* load factor doubles the bucket count once, keeps every other pair and
\* leaves size one more than before
C9_ResizeKeepsTable ==
    /\ [](/\ size * 4 <= Len(table) * 3
          /\ \A b \in 1 .. Len(table) : \A i \in 1 .. Len(table[b]) :
                /\ _bucket(table, table[b][i][1]) + 1 = b
                /\ Cardinality(Places(table[b][i][1])) = 1)
    /\ [][/\ Len(table') \in {Len(table), 2 * Len(table)}
          /\ (size' # size /\ size' * 4 > Len(table) * 3) <=> Len(table') = 2 * Len(table)
          /\ Len(table') # Len(table) =>
                /\ size' = size + 1
                /\ \A key \in DOMAIN inserted :
                        search([table |-> table', size |-> size'], key) = search(HT, key)]_vars

\* a table that has been doubled and holds a chain of two keys
C9_Witness ==
    /\ Len(table) >= 4
    /\ \E b \in 1 .. Len(table) : Len(table[b]) >= 2

----------------------------------------------------------------------------
(* Properties of the distance fallback *)

Unresolved(pid) == _address_index_for(pkgs[pid].street) = None

\* C10: when exactly one package has an unresolvable address, and every other
\* address and matrix cell resolves, the run ends with the fallback distance
\* used once: the fallback counter is one
C10_FallbackCountedOnce ==
    (/\ Done
     /\ Resolvable(DistanceCSV)
     /\ Cardinality({pid \in DOMAIN pkgs : Unresolved(pid)}) = 1)
    => fallback_count = 1

----------------------------------------------------------------------------
(* Properties of the delivery loop and of the waves *)

Thresholds == {DELAYED_TIME, ADDR_FIX_TIME}

\* C11: every run of the three waves ends; an iteration of the loop either
\* delivers one onboard package or moves the truck clock forward to a gate
\* threshold, and the loop is left only with nothing onboard
C11_DeliverRunTerminates ==
    /\ <>[](Done /\ onboard = <<>>)
    /\ [][(pc = "loop" /\ pc' = "loop") =>
            \/ /\ Len(onboard') = Len(onboard) - 1
               /\ trucks'[wave].time >= trucks[wave].time
            \/ /\ onboard' = onboard
               /\ trucks'[wave].time > trucks[wave].time
               /\ trucks'[wave].time \in Thresholds]_vars
    /\ [][(pc = "loop" /\ pc' # "loop") => onboard = <<>>]_vars

\* a truck that waited at both thresholds and then delivered all it carried
C11_Witness ==
    /\ Done
    /\ \E name \in TruckNames :
            /\ trucks[name].departTime < DELAYED_TIME
            /\ Len(trucks[name].packages) = 2
            /\ \E pid \in IdsOf(trucks[name].packages) :
                    is_delayed(pkgs[pid]) /\ pkgs[pid].ID # 9
            /\ 9 \in IdsOf(trucks[name].packages)
            /\ Val(pkgs[9].deliveryTime) >= ADDR_FIX_TIME

Max(S) == CHOOSE x \in S : \A y \in S : y <= x

\* the wave of the truck has run to its end
WaveOver(name) ==
    \/ pc = "cli"
    \/ name = T1 /\ wave \in {T3, T2}
    \/ name = T3 /\ wave = T2

\* the time the first driver is free again, not before the 08:00 dispatch
FirstDriverFree == Max({Hm(8, 0), Min({trucks[T1].time, trucks[T3].time})})

\* C12: Truck 2 does nothing before the waves of Truck 1 and Truck 3 are over;
\* then its start time and first clock value are the earlier of the final
\* clocks of Truck 1 and Truck 3, not before 08:00, and those clocks stay
C12_Truck2StartsAtFirstReturn ==
    /\ [](wave # T2 =>
            /\ trucks[T2].packages = manifest[T2]
            /\ trucks[T2].miles = 0
            /\ \A pid \in IdsOf(manifest[T2]) : ~Delivered(pid))
    /\ [](wave = T2 =>
            /\ WaveOver(T1) /\ WaveOver(T3)
            /\ \A pid \in IdsOf(manifest[T1]) \cup IdsOf(manifest[T3]) : Delivered(pid)
            /\ trucks[T2].departTime = FirstDriverFree
            /\ pc = "load" => trucks[T2].time = FirstDriverFree
            /\ trucks[T2].time >= FirstDriverFree)
    /\ [][wave = T2 => (trucks'[T1] = trucks[T1] /\ trucks'[T3] = trucks[T3])]_vars

\* Truck 3 finished before Truck 1, and Truck 2 left at that time and delivered
C12_Witness ==
    /\ Done
    /\ trucks[T3].time < trucks[T1].time
    /\ trucks[T3].time > trucks[T3].departTime
    /\ trucks[T2].departTime = trucks[T3].time
    /\ Len(trucks[T2].packages) >= 1
    /\ trucks[T2].time > trucks[T2].departTime

\* the truck is on the road at time t: from its wave start until its final clock
OnRoad(name, t) == trucks[name].departTime <= t /\ t < trucks[name].time

\* C13: at no time are the three trucks on the road at once (if they were at
\* some time, they would be at the latest of the three wave starts), and
\* Truck 2 never starts before Truck 1 or Truck 3 has finished
C13_TwoDrivers ==
    /\ \A t \in {trucks[name].departTime : name \in TruckNames} :
            ~(\A name \in TruckNames : OnRoad(name, t))
    /\ wave = T2 =>
            \E name \in {T1, T3} :
                WaveOver(name) /\ trucks[name].time <= trucks[T2].departTime

\* Truck 2 left while the other of Truck 1 and Truck 3 was still on the road
C13_Witness ==
    /\ Done
    /\ trucks[T2].time > trucks[T2].departTime
    /\ \E name \in {T1, T3} :
            /\ OnRoad(name, trucks[T2].departTime)
            /\ trucks[name].time < trucks[T2].time

----------------------------------------------------------------------------
(* Properties of repeated queries *)

\* C14: a query changes the answer of no query: after any step of the menu a
\* package asked at a time gets the status, address and delivery time it
\* would have got before the step, and what the menu prints is that answer;
\* so the same question asked again, with other questions in between, is
\* answered the same
C14_QueryIdempotent ==
    [][pc = "cli" =>
        /\ \A pid \in DOMAIN pkgs : \A q \in QueryTimes :
                Detail(pkgs'[pid], q) = Detail(pkgs[pid], q)
        /\ \A pid \in DOMAIN shown'.rows :
                shown'.rows[pid] = Detail(pkgs[pid], shown'.rows[pid].at)]_vars

\* a package answered as delivered while an earlier question at an earlier
\* time has left a gate status in the stored field of another package
C14_Witness ==
    /\ shown.kind = "detail"
    /\ \E pid \in ShownIds :
            /\ shown.rows[pid].status = <<DELIVERED>>
            /\ \E other \in DOMAIN pkgs :
                    /\ other # pid
                    /\ Delivered(other)
                    /\ pkgs[other].status \in {<<DELAYED>>, <<AWAITING>>}

----------------------------------------------------------------------------
(* Properties of the cargo of a truck *)

\* C15: no truck is ever assigned more than 16 package ids, and at every step
\* of a wave the packages onboard and those already delivered by the truck
\* are together at most 16
C15_CargoWithinCapacity ==
    /\ \A name \in TruckNames :
            /\ Len(manifest[name]) <= TRUCK_CAP
            /\ Len(trucks[name].packages) <= TRUCK_CAP
    /\ Len(onboard) <= TRUCK_CAP
    /\ pc = "loop" => Len(onboard) + Len(trucks[wave].packages) <= TRUCK_CAP

\* a truck given more than 16 ids: 16 are onboard and one id is on no truck
C15_Witness ==
    /\ pc = "loop"
    /\ Len(onboard) = TRUCK_CAP
    /\ \E pid \in DOMAIN pkgs :
            \A name \in TruckNames : pid \notin IdsOf(manifest[name])

----------------------------------------------------------------------------
(* Properties of the selection *)

\* the eligible candidates of the current iteration, as a set
Cands == {Candidates[i] : i \in DOMAIN Candidates}

MeetsDeadline(c) == c.dl # None /\ c.arr <= Val(c.dl)
MissesDeadline(c) == c.dl # None /\ c.arr > Val(c.dl)
NoDeadline(c) == c.dl = None

\* the step delivers the candidate
Chosen(c) == pc = "loop" /\ Selected(c.id)

\* C16: the package a step delivers is an eligible candidate; it meets its
\* deadline if any candidate would; else it has a (missed) deadline if any
\* candidate has one; a package without deadline is delivered only when no
\* candidate has a deadline
C16_TierPriority ==
    [][/\ \A pid \in DOMAIN pkgs :
            (pc = "loop" /\ Selected(pid)) => \E c \in Cands : c.id = pid
       /\ \A c \in Cands :
            Chosen(c) =>
                /\ (\E x \in Cands : MeetsDeadline(x)) => MeetsDeadline(c)
                /\ (\E x \in Cands : MissesDeadline(x)) => ~NoDeadline(c)
                /\ NoDeadline(c) => \A x \in Cands : NoDeadline(x)]_vars

\* a truck that had two packages eligible from its start, one whose deadline
\* had already passed, and delivered the one that met its deadline first
C16_Witness ==
    \E name \in TruckNames : \E p1, p2 \in DOMAIN pkgs :
        /\ trucks[name].packages = <<p1, p2>>
        /\ manifest[name] = <<p2, p1>>
        /\ HasDeadline(p1) /\ Val(pkgs[p1].deliveryTime) <= Deadline(p1)
        /\ HasDeadline(p2) /\ Deadline(p2) < trucks[name].departTime
        /\ Val(pkgs[p1].departureTime) = trucks[name].departTime
        /\ Val(pkgs[p2].departureTime) = trucks[name].departTime

\* arrival at least 10 minutes before the deadline
EarnsBonus(c) == c.arr + Hm(0, 10) <= Val(c.dl)

\* 30 times (arrival in minutes + miles - 0.2 if the bonus is earned): a tick
\* is a third of a minute and a distance unit a tenth of a mile
Composite(c) == 10 * c.arr + 3 * c.d - (IF EarnsBonus(c) THEN 6 ELSE 0)

\* C17: a delivered package that meets its deadline has the least composite
\* score of the candidates that meet theirs, and the lowest id of those with
\* that score; of two such candidates at the same distance the one without
\* the early bonus is not delivered before the one with it
C17_OnTimeByComposite ==
    [][\A c \in Cands :
        (Chosen(c) /\ MeetsDeadline(c)) =>
            \A x \in Cands :
                MeetsDeadline(x) =>
                    /\ Composite(c) <= Composite(x)
                    /\ Composite(c) = Composite(x) => c.id <= x.id
                    /\ (x.d = c.d /\ EarnsBonus(x)) => EarnsBonus(c)]_vars

\* two packages at one address delivered on time at the same moment: the one
\* with the higher id and the later place in the manifest went first, as it
\* was 10 minutes early for its deadline and the other was not
C17_Witness ==
    \E name \in TruckNames : \E p1, p2 \in DOMAIN pkgs :
        /\ trucks[name].packages = <<p1, p2>>
        /\ manifest[name] = <<p2, p1>>
        /\ p1 > p2
        /\ pkgs[p1].street = pkgs[p2].street
        /\ pkgs[p1].deliveryTime = pkgs[p2].deliveryTime
        /\ HasDeadline(p1) /\ HasDeadline(p2)
        /\ Val(pkgs[p1].deliveryTime) + Hm(0, 10) <= Deadline(p1)
        /\ Val(pkgs[p2].deliveryTime) + Hm(0, 10) > Deadline(p2)
        /\ Val(pkgs[p2].deliveryTime) <= Deadline(p2)

\* C18: when no eligible candidate has a deadline, the delivered package is at
\* the least distance from the truck's location, and has the lowest id of the
\* candidates at that distance
C18_EodNearestThenId ==
    [][\A c \in Cands :
        (Chosen(c) /\ \A x \in Cands : NoDeadline(x)) =>
            \A x \in Cands :
                /\ c.d <= x.d
                /\ c.d = x.d => c.id <= x.id]_vars

\* two packages without deadline at one address, both eligible from the start
\* of the wave: the lower id went first though it is last in the manifest
C18_Witness ==
    \E name \in TruckNames : \E p1, p2 \in DOMAIN pkgs :
        /\ trucks[name].packages = <<p1, p2>>
        /\ manifest[name] = <<p2, p1>>
        /\ p1 < p2
        /\ ~HasDeadline(p1) /\ ~HasDeadline(p2)
        /\ pkgs[p1].street = pkgs[p2].street
        /\ pkgs[p1].deliveryTime = pkgs[p2].deliveryTime
        /\ Val(pkgs[p1].departureTime) = trucks[name].departTime
        /\ Val(pkgs[p2].departureTime) = trucks[name].departTime

----------------------------------------------------------------------------
(* Properties of waiting at the gates *)

\* the thresholds that gate a package
Gates(pkg) ==
    (IF DelayGated(pkg) THEN {DELAYED_TIME} ELSE {})
    \cup (IF pkg.ID = 9 THEN {ADDR_FIX_TIME} ELSE {})

GateClosed(pid, t) == \E g \in Gates(pkgs[pid]) : t < g

\* the thresholds after t that gate a package onboard
GatesAhead(t) == {g \in UNION {Gates(pkgs[pid]) : pid \in IdsOf(onboard)} : t < g}

\* the step moves the clock of the current truck and delivers nothing
Idles == trucks'[wave].time # trucks[wave].time /\ onboard' = onboard

\* C19: in the loop the clock moves without a delivery only when every onboard
\* package is behind a closed gate, and then to the earliest threshold after
\* the clock that gates an onboard package; when a package onboard is eligible
\* the step delivers one
C19_WaitsOnlyWhenGated ==
    [][pc = "loop" =>
        /\ Idles =>
            /\ \A pid \in IdsOf(onboard) : GateClosed(pid, trucks[wave].time)
            /\ GatesAhead(trucks[wave].time) # {}
            /\ trucks'[wave].time = Min(GatesAhead(trucks[wave].time))
        /\ (\E pid \in IdsOf(onboard) : ~GateClosed(pid, trucks[wave].time)) =>
            /\ ~Idles
            /\ Len(onboard') = Len(onboard) - 1]_vars

\* a truck that left at 08:00 with a delayed package and package 9: it waited
\* for 09:05, delivered the delayed package before 10:20 and waited again
C19_Witness ==
    /\ pc = "loop"
    /\ trucks[wave].departTime < DELAYED_TIME
    /\ trucks[wave].time = ADDR_FIX_TIME
    /\ onboard = <<9>>
    /\ \E pid \in IdsOf(trucks[wave].packages) :
            /\ DelayGated(pkgs[pid])
            /\ Val(pkgs[pid].deliveryTime) < ADDR_FIX_TIME
    /\ waited > DELAYED_TIME - trucks[wave].departTime

\* C20: whenever packages are onboard and none is eligible, a gate threshold is
\* still ahead; the loop is never left by its break, and a wave that is over
\* has delivered every package it loaded
C20_HaltUnreachable ==
    /\ (pc = "loop" /\ onboard # <<>> /\ Elig(trucks[wave].time) = <<>>)
            => NextTimes(trucks[wave].time) # {}
    /\ pc # "ret"
    /\ \A name \in TruckNames :
            WaveOver(name) => \A pid \in IdsOf(manifest[name]) : Delivered(pid)
    /\ pc \in {"load", "cli"} =>
            \A pid \in DOMAIN pkgs : pkgs[pid].truck # "None" => Delivered(pid)

\* Truck 3 at 09:05 with a delayed package 9: the delayed gate is open, nothing
\* is eligible and 10:20 is the one threshold ahead
C20_Witness ==
    /\ pc = "loop"
    /\ onboard # <<>>
    /\ Elig(trucks[wave].time) = <<>>
    /\ trucks[wave].time = DELAYED_TIME
    /\ \A pid \in IdsOf(onboard) : DelayGated(pkgs[pid])
    /\ NextTimes(trucks[wave].time) = {ADDR_FIX_TIME}

----------------------------------------------------------------------------
(* Properties of the corrected address of package 9 *)

\* the address every package file of the model gives package 9
FileAddressOfNine == <<STREET_A, "84115">>

CorrectedAddressOfNine == <<CORR_STREET, CORR_ZIP>>

\* the distance from the current truck's location to a street
DistanceTo(street) ==
    dist_between(DistanceCSV, Some(address_idx(trucks[wave].currentLocation)),
                 Some(address_idx(street))).d

\* C21: package 9 is a candidate only at a clock of 10:20 or later and its
\* distance is then the distance to the corrected address; the step that
\* delivers it leaves the truck at the corrected address; in every state,
\* rewritten by the routing or not, the address to display before 10:20 is
\* the one of the file and from 10:20 on the corrected one, and so is the
\* address the menu prints
C21_NineUsesCorrectedAddress ==
    /\ [](\A c \in Cands :
            (pc = "loop" /\ c.id = 9) =>
                /\ trucks[wave].time >= ADDR_FIX_TIME
                /\ c.d = DistanceTo(CORR_STREET))
    /\ [][(pc = "loop" /\ Selected(9)) =>
            /\ trucks'[wave].currentLocation = CORR_STREET
            /\ trucks'[wave].miles = trucks[wave].miles + DistanceTo(CORR_STREET)]_vars
    /\ [](\A q \in QueryTimes :
            display_address(pkgs[9], q) =
                IF q < ADDR_FIX_TIME THEN FileAddressOfNine ELSE CorrectedAddressOfNine)
    /\ [](\A pid \in ShownIds :
            pid = 9 =>
                shown.rows[pid].address =
                    IF shown.rows[pid].at < ADDR_FIX_TIME
                    THEN FileAddressOfNine ELSE CorrectedAddressOfNine)

\* package 9 was delivered at the corrected address, its address fields are
\* rewritten, and a question about a time before 10:20 is answered with the
\* address of the file
C21_Witness ==
    /\ 9 \in ShownIds
    /\ shown.rows[9].at < ADDR_FIX_TIME
    /\ shown.rows[9].address = FileAddressOfNine
    /\ Delivered(9)
    /\ pkgs[9].street = CORR_STREET
    /\ trucks[pkgs[9].truck].currentLocation = CORR_STREET
    /\ pkgs[9].street # pkgs[9]._orig_street

----------------------------------------------------------------------------
(* Properties of the clock and the mileage of a truck *)

\* the ticks of 20 seconds a truck needs for its miles (tenths) at its speed
DrivingTicks(name) == (trucks[name].miles * 180) \div (trucks[name].speed * 10)

\* the delivered order of the truck is being written or is complete
Delivering(name) == WaveOver(name) \/ (name = wave /\ pc # "load")

\* C22: the clock of the current truck is its wave start plus the time for its
\* miles plus the time it waited at gates; within a wave neither clock nor
\* mileage decreases; a delivered package is stamped with the clock of the
\* step that delivers it, and the stamps do not decrease along the delivered
\* order of a truck
C22_ClockAndMileageConsistent ==
    /\ [](trucks[wave].time =
            trucks[wave].departTime + DrivingTicks(wave)
                + (IF pc = "load" THEN 0 ELSE waited))
    /\ [](\A name \in TruckNames :
            Delivering(name) =>
                \A i, j \in 1 .. Len(trucks[name].packages) :
                    i < j => Val(pkgs[trucks[name].packages[i]].deliveryTime)
                                <= Val(pkgs[trucks[name].packages[j]].deliveryTime))
    /\ [][(pc = "loop" /\ pc' = "loop") =>
            /\ trucks'[wave].time >= trucks[wave].time
            /\ trucks'[wave].miles >= trucks[wave].miles
            /\ waited' >= waited
            /\ \A pid \in DOMAIN pkgs :
                    Selected(pid) =>
                        /\ pkgs'[pid].deliveryTime = Some(trucks'[wave].time)
                        /\ trucks'[wave].packages = Append(trucks[wave].packages, pid)]_vars

\* a truck that waited at a gate, drove, and delivered two packages at two
\* different times
C22_Witness ==
    /\ pc = "loop"
    /\ waited > 0
    /\ trucks[wave].miles > 0
    /\ Len(trucks[wave].packages) = 2
    /\ Val(pkgs[trucks[wave].packages[1]].deliveryTime)
            < Val(pkgs[trucks[wave].packages[2]].deliveryTime)
    /\ trucks[wave].time > trucks[wave].departTime + waited

====
